---- MODULE Spec2Model ----
(***************************************************************************)
(* A model of sanexml.etree (src/src/sanexml/etree.py): the tree surgery   *)
(* operations strip_attributes, strip_elements and strip_tags, the         *)
(* wildcard matcher they compile, the tag masking of fromstring, and       *)
(* indent with its _pretty_print fallback.                                 *)
(*                                                                         *)
(* Spec        one surgery call on a tree (strip_* operations)             *)
(* SpecMatch   the attribute pattern compiler and matcher                  *)
(* SpecMask    pre_process / BeautifulSoup / post_process of fromstring    *)
(* SpecIndent  indent: the library call or the _pretty_print fallback      *)
(***************************************************************************)
EXTENDS Integers, Sequences, FiniteSets, TLC

VARIABLES
    tree,        \* the element tree: fields of every Element object
    tree0,       \* the tree as it was when the call started
    pc,          \* position of the running call
    call,        \* the arguments of the running call
    parent_map,  \* strip_elements / strip_tags: the local parent_map
    tag_names,   \* selectors the outer for loop has not reached yet
    tag,         \* the selector the outer for loop is at
    todo,        \* elements the inner for loop has not reached yet
    pattern,     \* SpecMatch: the attribute pattern given
    attribute,   \* SpecMatch: the attribute name tested
    compiled,    \* SpecMatch: the compiled pattern
    matched,     \* SpecMatch: result of del_attr.match(attribute)
    html_content,\* SpecMask: the elements written in the input text
    mapping,     \* SpecMask: pre_process's mapping, tag -> placeholder
    processed,   \* SpecMask: the tags of the elements in the masked text
    soup         \* SpecMask: tag name of every element of the soup

surgVars  == <<tree, tree0, call, parent_map, tag_names, tag, todo>>
matchVars == <<pattern, attribute, compiled, matched>>
maskVars  == <<html_content, mapping, processed, soup>>
vars      == <<tree, tree0, pc, call, parent_map, tag_names, tag, todo,
               pattern, attribute, compiled, matched,
               html_content, mapping, processed, soup>>

\* the largest number of nodes of a tree
MaxNodes == 4

Range(s) == {s[i] : i \in DOMAIN s}

RECURSIVE ConcatAll(_)
ConcatAll(ss) == IF ss = <<>> THEN <<>> ELSE Head(ss) \o ConcatAll(Tail(ss))

(***************************************************************************)
(* Strings are sequences of characters.                                    *)
(***************************************************************************)
att    == <<"a", "t", "t">>
attr   == <<"a", "t", "t", "r">>
attic  == <<"a", "t", "t", "i", "c">>
other  == <<"o", "t", "h", "e", "r">>
attStar == <<"a", "t", "t", "*">>

(***************************************************************************)
(* strip_attributes line 230: attribute.replace("*", ".*")                 *)
(***************************************************************************)
RECURSIVE Replace(_)
Replace(p) ==
    IF p = <<>> THEN <<>>
    ELSE (IF Head(p) = "*" THEN <<".", "*">> ELSE <<Head(p)>>) \o Replace(Tail(p))

(***************************************************************************)
(* re.compile on the characters the model uses: "." is any character,      *)
(* "*" repeats the item before it, every other character is itself.       *)
(***************************************************************************)
RECURSIVE ReCompile(_)
ReCompile(r) ==
    IF r = <<>> THEN <<>>
    ELSE IF Len(r) >= 2 /\ r[2] = "*"
         THEN <<[kind |-> "star", ch |-> r[1]]>> \o ReCompile(SubSeq(r, 3, Len(r)))
         ELSE <<[kind |-> "one", ch |-> r[1]]>> \o ReCompile(Tail(r))

Compile(p) == ReCompile(Replace(p))

ItemTakes(item, c) == item.ch = "." \/ item.ch = c

(***************************************************************************)
(* Pattern.match: the regular expression matches at the start of the       *)
(* string; what follows the match is not looked at.                        *)
(***************************************************************************)
RECURSIVE ReMatch(_, _)
ReMatch(re, s) ==
    IF re = <<>> THEN TRUE
    ELSE IF Head(re).kind = "star"
         THEN \/ ReMatch(Tail(re), s)
              \/ /\ s # <<>>
                 /\ ItemTakes(Head(re), Head(s))
                 /\ ReMatch(re, Tail(s))
         ELSE /\ s # <<>>
              /\ ItemTakes(Head(re), Head(s))
              /\ ReMatch(Tail(re), Tail(s))

(***************************************************************************)
(* Trees.  A node is a number; node Root is the scope root handed to the   *)
(* operation.  tree.children[n] is the child list of n, tree.tag[n] its    *)
(* tag, tree.attrib[n] its attribute dictionary, tree.text[n] and          *)
(* tree.tail[n] its character data (a sequence of tokens, empty for None   *)
(* or "").  An element taken out of its parent is still an object: it      *)
(* keeps its fields.                                                       *)
(***************************************************************************)
Root == 1

\* ET.Comment, the tag of a comment node; it is no string
COMMENT == "<function Comment>"

TagNames == {"a", "b"}

RECURSIVE SortedSeq(_)
SortedSeq(S) ==
    IF S = {} THEN <<>>
    ELSE LET m == CHOOSE x \in S : \A y \in S : x <= y
         IN  <<m>> \o SortedSeq(S \ {m})

NoAttrib == <<>>
FullAttrib == [k \in {att, attr, other} |-> <<"v", Len(k)>>]

TextOf(n) == << <<"text", n>> >>
TailOf(n) == << <<"tail", n>> >>

ParentChoices(n) == {par \in [2..n -> 1..n] : \A i \in 2..n : par[i] < i}

MakeTree(n, par, tg, chardata) ==
    [children |-> [p \in 1..n |-> SortedSeq({i \in 2..n : par[i] = p})],
     tag      |-> tg,
     attrib   |-> [p \in 1..n |-> IF tg[p] # COMMENT THEN FullAttrib ELSE NoAttrib],
     text     |-> [p \in 1..n |-> IF chardata THEN TextOf(p) ELSE <<>>],
     tail     |-> [p \in 1..n |-> IF chardata THEN TailOf(p) ELSE <<>>]]

Shapes == UNION {{<<n, par>> : par \in ParentChoices(n)} : n \in 1..MaxNodes}

\* tags of a tree of the parser: a comment has no children, the root is an element
TagChoices(n, par) ==
    {tg \in [1..n -> TagNames \cup {COMMENT}] :
        /\ tg[Root] \in TagNames
        /\ \A i \in 2..n : tg[par[i]] # COMMENT}

\* the trees a call is made on
Trees ==
    UNION {{MakeTree(sh[1], sh[2], tg, cd) :
                tg \in TagChoices(sh[1], sh[2]),
                cd \in BOOLEAN}
           : sh \in Shapes}

Nodes(t) == DOMAIN t.children

(***************************************************************************)
(* Element.iter(): the element and its descendants in document order.      *)
(***************************************************************************)
RECURSIVE Iter(_, _)
Iter(t, n) ==
    <<n>> \o ConcatAll([i \in 1..Len(t.children[n]) |-> Iter(t, t.children[n][i])])

Descendants(t, n) == Range(Tail(Iter(t, n)))

\* a findall that yields the root too, as root.iter(name) does
FindAllWithSelf(t, name) ==
    SelectSeq(Iter(t, Root), LAMBDA e : name = "*" \/ t.tag[e] = name)

(***************************************************************************)
(* root.findall(".//" + name): the descendants of root, root excluded, in  *)
(* document order, that Element.iter(name) yields: every one for "*"       *)
(* (".//" alone is read as ".//*"), else those whose tag equals name.      *)
(***************************************************************************)
FindAll(t, name) ==
    SelectSeq(Tail(Iter(t, Root)), LAMBDA e : name = "*" \/ t.tag[e] = name)

\* a parent_map of the root's own children only: {c: root for c in root}
ParentMapOfRoot(t) == [c \in Range(t.children[Root]) |-> Root]

(***************************************************************************)
(* parent_map = {c: p for p in root.iter() for c in p}                     *)
(***************************************************************************)
ParentMap(t) ==
    LET ps == Range(Iter(t, Root))
        cs == UNION {Range(t.children[p]) : p \in ps}
    IN  [c \in cs |-> CHOOSE p \in ps : c \in Range(t.children[p])]

\* parent.remove(element)
Remove(t, parent, e) ==
    [t EXCEPT !.children[parent] = SelectSeq(@, LAMBDA c : c # e)]

\* type(tag) == str
IsStr(sel) == sel # COMMENT

\* isinstance(tag, ET.Element): a selector is a string or the function ET.Comment
IsElementInstance(sel) == FALSE

Selectors == {"a", "*", COMMENT}

SelectorLists ==
    {<<>>} \cup {<<s>> : s \in Selectors} \cup {<<s, r>> : s, r \in Selectors}

PatternLists ==
    {<<>>, <<att>>, <<attStar>>, <<other>>, <<att, other>>, <<attStar, other>>}

ScopeTypes == {"Element", "ElementTree", "str"}

(***************************************************************************)
(* remove_attribute(element, attributes_to_delete): every attribute that   *)
(* some compiled pattern matches is popped.                                *)
(***************************************************************************)
remove_attribute(attributes, attributes_to_delete) ==
    LET kept == {a \in DOMAIN attributes :
                    ~ \E i \in DOMAIN attributes_to_delete :
                          ReMatch(attributes_to_delete[i], a)}
    IN  [a \in kept |-> attributes[a]]

\* the elements strip_attributes hands to remove_attribute
AttributeTargets(t, scope) ==
    IF scope = "Element" THEN {Root}
    ELSE IF scope = "ElementTree" THEN Range(Iter(t, Root))
    ELSE {}

(***************************************************************************)
(* strip_attributes(tree_or_element, *attribute_names)                     *)
(***************************************************************************)
strip_attributes(attribute_names, scope) ==
    /\ pc = "idle"
    /\ call' = [op |-> "strip_attributes", names |-> attribute_names,
                scope |-> scope, with_tail |-> TRUE]
    /\ LET attributes_to_delete ==
               [i \in DOMAIN attribute_names |-> Compile(attribute_names[i])]
           targets == AttributeTargets(tree, scope)
       IN  tree' = [tree EXCEPT !.attrib =
                       [n \in Nodes(tree) |->
                           IF n \in targets
                           THEN remove_attribute(tree.attrib[n], attributes_to_delete)
                           ELSE tree.attrib[n]]]
    /\ pc' = IF scope \in {"Element", "ElementTree"} THEN "done" ELSE "TypeError"
    /\ UNCHANGED <<tree0, parent_map, tag_names, tag, todo>>
    /\ UNCHANGED <<matchVars, maskVars>>

(***************************************************************************)
(* strip_elements(tree_or_element, *tag_names, with_tail=True)             *)
(***************************************************************************)
strip_elements(names, with_tail) ==
    /\ pc = "idle"
    /\ call' = [op |-> "strip_elements", names |-> names,
                scope |-> "Element", with_tail |-> with_tail]
    /\ parent_map' = ParentMap(tree)
    /\ tag_names' = names
    /\ pc' = "strip_elements"
    /\ UNCHANGED <<tree, tree0, tag, todo>>
    /\ UNCHANGED <<matchVars, maskVars>>

\* lines 274-275 and 282-284: the elements the inner loop of strip_elements visits
ElementsToBeRemoved(t, sel) ==
    IF IsStr(sel) THEN FindAll(t, sel)
    ELSE IF IsElementInstance(sel) /\ sel = COMMENT THEN FindAll(t, "*")
    ELSE <<>>

\* line 273: for tag in tag_names
strip_elements_for_tag ==
    /\ pc = "strip_elements"
    /\ todo = <<>>
    /\ tag_names # <<>>
    /\ tag' = Head(tag_names)
    /\ tag_names' = Tail(tag_names)
    /\ todo' = ElementsToBeRemoved(tree, Head(tag_names))
    /\ UNCHANGED <<tree, tree0, pc, call, parent_map>>
    /\ UNCHANGED <<matchVars, maskVars>>

\* lines 277-279: the tail of the element is emptied when with_tail is set
DropTail(t, e, with_tail) ==
    IF with_tail /\ t.tail[e] # <<>> THEN [t EXCEPT !.tail[e] = <<>>] ELSE t

\* lines 276-281 and 284-287: one element of the inner loop
strip_elements_remove ==
    /\ pc = "strip_elements"
    /\ todo # <<>>
    /\ LET e == Head(todo)
           t1 == IF IsStr(tag) THEN DropTail(tree, e, call.with_tail) ELSE tree
       IN  IF ~ IsStr(tag) /\ tree.tag[e] # COMMENT
           THEN tree' = tree /\ pc' = pc
           ELSE IF e \notin DOMAIN parent_map
           THEN tree' = t1 /\ pc' = "KeyError"
           ELSE IF e \notin Range(tree.children[parent_map[e]])
           THEN tree' = t1 /\ pc' = "ValueError"
           ELSE tree' = Remove(t1, parent_map[e], e) /\ pc' = pc
    /\ todo' = Tail(todo)
    /\ UNCHANGED <<tree0, call, parent_map, tag_names, tag>>
    /\ UNCHANGED <<matchVars, maskVars>>

(***************************************************************************)
(* strip_tags(tree_or_element, *tag_names)                                 *)
(***************************************************************************)
strip_tags(names) ==
    /\ pc = "idle"
    /\ call' = [op |-> "strip_tags", names |-> names,
                scope |-> "Element", with_tail |-> TRUE]
    /\ parent_map' = ParentMap(tree)
    /\ tag_names' = names
    /\ pc' = "strip_tags"
    /\ UNCHANGED <<tree, tree0, tag, todo>>
    /\ UNCHANGED <<matchVars, maskVars>>

\* lines 322-323: only the selector ET.Comment has a branch
ElementsToVisit(t, sel) ==
    IF sel = COMMENT THEN FindAll(t, "*") ELSE <<>>

\* line 321: for tag in tag_names
strip_tags_for_tag ==
    /\ pc = "strip_tags"
    /\ todo = <<>>
    /\ tag_names # <<>>
    /\ tag' = Head(tag_names)
    /\ tag_names' = Tail(tag_names)
    /\ todo' = ElementsToVisit(tree, Head(tag_names))
    /\ UNCHANGED <<tree, tree0, pc, call, parent_map>>
    /\ UNCHANGED <<matchVars, maskVars>>

\* lines 326-327: parent.text = element.tail; parent.remove(element)
UnwrapComment(t, parent, e) ==
    Remove([t EXCEPT !.text[parent] = t.tail[e]], parent, e)

\* lines 323-327: one element of the inner loop
strip_tags_visit ==
    /\ pc = "strip_tags"
    /\ todo # <<>>
    /\ LET e == Head(todo)
       IN  IF tree.tag[e] # COMMENT
           THEN tree' = tree /\ pc' = pc
           ELSE IF e \notin DOMAIN parent_map
           THEN tree' = tree /\ pc' = "KeyError"
           ELSE IF e \notin Range(tree.children[parent_map[e]])
           THEN tree' = [tree EXCEPT !.text[parent_map[e]] = tree.tail[e]]
                /\ pc' = "ValueError"
           ELSE tree' = UnwrapComment(tree, parent_map[e], e) /\ pc' = pc
    /\ todo' = Tail(todo)
    /\ UNCHANGED <<tree0, call, parent_map, tag_names, tag>>
    /\ UNCHANGED <<matchVars, maskVars>>

\* the for loop over tag_names is exhausted: the call returns
Return ==
    /\ pc \in {"strip_elements", "strip_tags"}
    /\ todo = <<>>
    /\ tag_names = <<>>
    /\ pc' = "done"
    /\ UNCHANGED <<tree, tree0, call, parent_map, tag_names, tag, todo>>
    /\ UNCHANGED <<matchVars, maskVars>>

NoCall == [op |-> "none", names |-> <<>>, scope |-> "Element", with_tail |-> TRUE]

IdleMatch == pattern = <<>> /\ attribute = <<>> /\ compiled = <<>> /\ matched = "none"
IdleMask  == html_content = <<>> /\ mapping = <<>> /\ processed = <<>> /\ soup = <<>>

Init ==
    /\ tree \in Trees
    /\ tree0 = tree
    /\ pc = "idle"
    /\ call = NoCall
    /\ parent_map = <<>>
    /\ tag_names = <<>>
    /\ tag = "*"
    /\ todo = <<>>
    /\ IdleMatch
    /\ IdleMask

Next ==
    \/ \E ns \in PatternLists, sc \in ScopeTypes : strip_attributes(ns, sc)
    \/ \E ns \in SelectorLists, wt \in BOOLEAN : strip_elements(ns, wt)
    \/ strip_elements_for_tag
    \/ strip_elements_remove
    \/ \E ns \in SelectorLists : strip_tags(ns)
    \/ strip_tags_for_tag
    \/ strip_tags_visit
    \/ Return

Spec == Init /\ [][Next]_vars

(***************************************************************************)
(* Vocabulary of the properties of the surgery operations.                 *)
(***************************************************************************)
Done(op) == pc = "done" /\ call.op = op

Names == Range(call.names)

\* a selector selects a tag: "*" selects every node, another selector the equal tag
Selected(names, tg) == \E s \in names : s = "*" \/ s = tg

Literal(names) == names # {} /\ names \subseteq TagNames

Desc(t) == Descendants(t, Root)

\* character data below n in document order, comments' own text left out; the
\* subtrees of children selected by names are left out, and their tails too
\* unless keepTails
RECURSIVE DataWithout(_, _, _, _)
DataWithout(t, n, names, keepTails) ==
    t.text[n] \o
    ConcatAll([i \in 1..Len(t.children[n]) |->
        LET c == t.children[n][i]
        IN  (IF t.tag[c] = COMMENT \/ Selected(names, t.tag[c])
             THEN <<>> ELSE DataWithout(t, c, names, keepTails))
            \o (IF Selected(names, t.tag[c]) /\ ~ keepTails THEN <<>> ELSE t.tail[c])])

Data(t) == DataWithout(t, Root, {}, TRUE)

\* the child list cs with every selected node replaced by its own unwrapped children
RECURSIVE Unwrapped(_, _, _)
Unwrapped(t, cs, names) ==
    ConcatAll([i \in 1..Len(cs) |->
        IF Selected(names, t.tag[cs[i]])
        THEN Unwrapped(t, t.children[cs[i]], names)
        ELSE <<cs[i]>>])

\* C1: after strip_tags(scope, name...) with tag names, no descendant of the
\* scope root has one of the names, and the child list of the root and of every
\* node that was not selected is its former child list with each removed node
\* replaced, at its index and in order, by its children (so every descendant
\* that was not selected is still a descendant).
C1_StripTagsUnwrapsByName ==
    (Done("strip_tags") /\ Literal(Names)) =>
        /\ \A d \in Desc(tree) : ~ Selected(Names, tree.tag[d])
        /\ \A p \in {Root} \cup {d \in Desc(tree0) : ~ Selected(Names, tree0.tag[d])} :
               tree.children[p] = Unwrapped(tree0, tree0.children[p], Names)
        /\ \A d \in Desc(tree0) : ~ Selected(Names, tree0.tag[d]) => d \in Desc(tree)

\* C2: after strip_tags(scope, COMMENT) no descendant is a comment, every
\* element keeps its element children in their order, and the character data
\* outside comments, read in document order, is what it was before the call.
C2_StripCommentsKeepsData ==
    (Done("strip_tags") /\ Names = {COMMENT}) =>
        /\ \A d \in Desc(tree) : tree.tag[d] # COMMENT
        /\ \A p \in Nodes(tree0) :
               tree0.tag[p] # COMMENT =>
                   tree.children[p] =
                       SelectSeq(tree0.children[p], LAMBDA c : tree0.tag[c] # COMMENT)
        /\ Data(tree) = Data(tree0)

\* C3: after strip_elements(scope, selectors...) no descendant of the scope
\* root has a tag a selector selects (a tag name, or the comment tag when the
\* comment sentinel was given), and no node of a subtree whose top was
\* selected is a descendant of the scope root.
C3_StripElementsRemovesAll ==
    Done("strip_elements") =>
        /\ \A d \in Desc(tree) : ~ Selected(Names, tree.tag[d])
        /\ \A d \in Desc(tree0) :
               Selected(Names, tree0.tag[d]) =>
                   Range(Iter(tree0, d)) \cap Desc(tree) = {}

\* C4: after strip_elements with tag names and with_tail false, the character
\* data of the scope is the former one without the text inside the removed
\* subtrees: the tail of every removed node is still there, at its place;
\* with with_tail true the tails of the removed nodes are gone too.
C4_StripElementsKeepsTail ==
    (Done("strip_elements") /\ Literal(Names)) =>
        Data(tree) = DataWithout(tree0, Root, Names, ~ call.with_tail)

\* C4, the half the code keeps: with with_tail true the removed nodes' tails
\* are discarded with them.
C4_TailDiscarded ==
    (Done("strip_elements") /\ Literal(Names) /\ call.with_tail) =>
        Data(tree) = DataWithout(tree0, Root, Names, FALSE)

\* the claim's matcher: the whole name equals the pattern, "*" standing for
\* zero or more characters and every other character for itself
RECURSIVE Glob(_, _)
Glob(p, s) ==
    IF p = <<>> THEN s = <<>>
    ELSE IF Head(p) = "*"
         THEN \/ Glob(Tail(p), s)
              \/ s # <<>> /\ Glob(p, Tail(s))
         ELSE s # <<>> /\ Head(p) = Head(s) /\ Glob(Tail(p), Tail(s))

GlobAny(ps, a) == \E p \in ps : Glob(p, a)

\* C5: after strip_attributes(scope, patterns...), the scope an element or a
\* tree, no descendant of the scope root carries an attribute a pattern
\* matches, and every attribute of a descendant that no pattern matches is
\* still there with its value.
C5_StripAttributesReachesAll ==
    Done("strip_attributes") =>
        \A d \in Desc(tree) :
            /\ \A a \in DOMAIN tree.attrib[d] : ~ GlobAny(Names, a)
            /\ \A a \in DOMAIN tree0.attrib[d] :
                   ~ GlobAny(Names, a) =>
                       /\ a \in DOMAIN tree.attrib[d]
                       /\ tree.attrib[d][a] = tree0.attrib[d][a]

IsRoot(t) == \A n \in Nodes(t) : Root \notin Range(t.children[n])

\* C8 as stated: after strip_attributes, strip_elements or strip_tags the
\* scope root is still the root and carries exactly the attributes it had.
C8_RootUntouched ==
    pc = "done" => IsRoot(tree) /\ tree.attrib[Root] = tree0.attrib[Root]

\* C8 amended: strip_elements and strip_tags never take the scope root as an
\* element to remove and leave its attributes as they were, at every step;
\* strip_attributes does work on the scope root, and only removes: every
\* attribute the root carries afterwards it carried before, with that value.
C8_RootKept ==
    /\ IsRoot(tree)
    /\ Root \notin Range(todo)
    /\ call.op \in {"strip_elements", "strip_tags"} =>
           tree.attrib[Root] = tree0.attrib[Root]
    /\ call.op = "strip_attributes" =>
           \A a \in DOMAIN tree.attrib[Root] :
               /\ a \in DOMAIN tree0.attrib[Root]
               /\ tree.attrib[Root][a] = tree0.attrib[Root][a]

\* strip_elements has removed descendants of a root whose own tag was selected
C8_Witness_ElementsRootMatches ==
    /\ Done("strip_elements")
    /\ Selected(Names, tree.tag[Root])
    /\ "a" \in Names
    /\ Desc(tree) # Desc(tree0)

\* the element the inner loop is at is one the loop body removes
Removes(e) ==
    \/ pc = "strip_elements" /\ (IsStr(tag) \/ tree.tag[e] = COMMENT)
    \/ pc = "strip_tags" /\ tree.tag[e] = COMMENT

\* C10: during strip_elements and strip_tags every element still to be
\* removed is a key of parent_map and a child of the parent parent_map gives,
\* so neither parent_map[element] nor parent.remove(element) ever fails.
C10_ParentMapUsable ==
    /\ pc \notin {"KeyError", "ValueError"}
    /\ \A i \in DOMAIN todo :
           Removes(todo[i]) =>
               /\ todo[i] \in DOMAIN parent_map
               /\ todo[i] \in Range(tree.children[parent_map[todo[i]]])

\* a nested match: the element to remove next lies in a subtree already removed,
\* in a call whose selectors select it twice
C10_Witness_NestedMatch ==
    /\ pc = "strip_elements"
    /\ todo # <<>>
    /\ parent_map[Head(todo)] \notin Desc(tree) \cup {Root}
    /\ call.names = <<"a", "*">>

(***************************************************************************)
(* SpecMatch: one pattern compiled as strip_attributes compiles it and     *)
(* matched against one attribute name as remove_attribute matches it.      *)
(***************************************************************************)
\* the longest pattern and attribute name drawn from the alphabet
MaxNameLen == 2

PatternChars == {"a", "t", ".", "*"}
NameChars == {"a", "t", "."}

SeqsUpTo(S, n) == UNION {[1..k -> S] : k \in 1..n}

Patterns == SeqsUpTo(PatternChars, MaxNameLen) \cup {att, attStar}
AttributeNames == SeqsUpTo(NameChars, MaxNameLen) \cup {att, attr, attic, other}

NoTree == MakeTree(1, <<>>, <<"a">>, FALSE)

IdleSurgery ==
    /\ tree = NoTree
    /\ tree0 = NoTree
    /\ call = NoCall
    /\ parent_map = <<>>
    /\ tag_names = <<>>
    /\ tag = "*"
    /\ todo = <<>>

InitMatch ==
    /\ pattern \in Patterns
    /\ attribute \in AttributeNames
    /\ compiled = <<>>
    /\ matched = "none"
    /\ pc = "compile"
    /\ IdleSurgery
    /\ IdleMask

\* line 230: re.compile(attribute.replace("*", ".*"))
compile_pattern ==
    /\ pc = "compile"
    /\ compiled' = Compile(pattern)
    /\ pc' = "match"
    /\ UNCHANGED <<pattern, attribute, matched, surgVars, maskVars>>

\* line 35: del_attr.match(attribute)
match_attribute ==
    /\ pc = "match"
    /\ matched' = IF ReMatch(compiled, attribute) THEN "yes" ELSE "no"
    /\ pc' = "matched"
    /\ UNCHANGED <<pattern, attribute, compiled, surgVars, maskVars>>

NextMatch == compile_pattern \/ match_attribute

SpecMatch == InitMatch /\ [][NextMatch]_vars

\* C6: a compiled pattern matches a name exactly when the whole name equals
\* the pattern, "*" standing for zero or more characters and every other
\* character for itself; a pattern without "*" matches only the equal name.
C6_MatcherAnchoredLiteral ==
    pc = "matched" =>
        /\ (matched = "yes") <=> Glob(pattern, attribute)
        /\ ("*" \notin Range(pattern)) => ((matched = "yes") <=> (pattern = attribute))

(***************************************************************************)
(* SpecMask: fromstring's pre_process, BeautifulSoup(.., "html.parser")    *)
(* and post_process.  The text is a sequence of elements; an element is    *)
(* written <name>..</name> ("bare"), <name k="v">..</name> ("attrs") or    *)
(* <name k="v"/> ("empty").  Only tag names are followed.                  *)
(***************************************************************************)
\* the largest number of elements of the input text
MaxElements == 2

Lowers == <<"a", "g", "t">>
Uppers == <<"A", "G", "T">>

\* str.upper and str.lower, character by character
UpperChar(c) == IF \E i \in 1..3 : Lowers[i] = c
                THEN Uppers[CHOOSE i \in 1..3 : Lowers[i] = c] ELSE c
LowerChar(c) == IF \E i \in 1..3 : Uppers[i] = c
                THEN Lowers[CHOOSE i \in 1..3 : Uppers[i] = c] ELSE c
Upper(w) == [i \in DOMAIN w |-> UpperChar(w[i])]
Lower(w) == [i \in DOMAIN w |-> LowerChar(w[i])]

Digits == <<"0", "1", "2", "3">>

\* f"TAG{index}"
Placeholder(index) == <<"T", "A", "G", Digits[index + 1]>>

InputTags == {<<"a">>, <<"A">>, <<"t", "a", "g", "0">>, <<"T", "A", "G", "0">>}
Forms == {"bare", "attrs", "empty"}

\* line 91: the names the regular expression <\/?([a-zA-Z_][\w.-]*)> finds:
\* those of the tags written with nothing but the name, closing tags included
FoundTags(content) ==
    {content[i].name : i \in {j \in DOMAIN content : content[j].form # "empty"}}

\* line 92: every way enumerate(tags) can number the set tags
Enumerations(tags) ==
    {f \in [tags -> 0..(Cardinality(tags) - 1)] :
        \A x, y \in tags : f[x] = f[y] => x = y}

\* lines 94-97: the names in the masked text; a start tag that carries
\* attributes is not rewritten, its end tag is
Masked(content, map) ==
    [i \in DOMAIN content |->
        [start |-> IF content[i].form = "bare"
                   THEN map[content[i].name] ELSE content[i].name,
         end   |-> IF content[i].form = "empty"
                   THEN content[i].name ELSE map[content[i].name]]]

InitMask ==
    /\ html_content \in UNION {[1..k -> [name : InputTags, form : Forms]] : k \in 1..MaxElements}
    /\ mapping = <<>>
    /\ processed = <<>>
    /\ soup = <<>>
    /\ pc = "pre_process"
    /\ IdleSurgery
    /\ IdleMatch

\* lines 90-98
pre_process ==
    /\ pc = "pre_process"
    /\ \E en \in Enumerations(FoundTags(html_content)) :
           /\ mapping' = [tg \in FoundTags(html_content) |-> Placeholder(en[tg])]
           /\ processed' = Masked(html_content, mapping')
    /\ pc' = "BeautifulSoup"
    /\ UNCHANGED <<html_content, soup, surgVars, matchVars>>

\* line 126: html.parser names an element by its start tag, in lower case
BeautifulSoup ==
    /\ pc = "BeautifulSoup"
    /\ soup' = [i \in DOMAIN processed |-> Lower(processed[i].start)]
    /\ pc' = "post_process"
    /\ UNCHANGED <<html_content, mapping, processed, surgVars, matchVars>>

\* lines 102-106
PostProcessed(names, map) ==
    LET reverse_mapping == [v \in Range(map) |-> CHOOSE k \in DOMAIN map : map[k] = v]
    IN  [i \in DOMAIN names |->
            IF Upper(names[i]) \in DOMAIN reverse_mapping
            THEN reverse_mapping[Upper(names[i])] ELSE names[i]]

\* line 127
post_process ==
    /\ pc = "post_process"
    /\ soup' = PostProcessed(soup, mapping)
    /\ pc' = "parsed"
    /\ UNCHANGED <<html_content, mapping, processed, surgVars, matchVars>>

NextMask == pre_process \/ BeautifulSoup \/ post_process

SpecMask == InitMask /\ [][NextMask]_vars

\* C7: every distinct tag name found gets its own placeholder, and after
\* unmasking every element has the tag name it had in the input text.
C7_MaskRoundTrip ==
    pc = "parsed" =>
        /\ \A x, y \in DOMAIN mapping : mapping[x] = mapping[y] => x = y
        /\ \A i \in DOMAIN html_content : soup[i] = html_content[i].name

(***************************************************************************)
(* SpecIndent: indent(tree), by xml.etree.ElementTree.indent where the     *)
(* library has it and by _pretty_print where the call raises               *)
(* AttributeError.  space and level keep their defaults.                   *)
(***************************************************************************)
\* "\n" followed by depth times the two spaces
Indentation(depth) == << <<"nl", depth>> >>

\* a string of whitespace met in the input
Blank == << <<"sp", 0>> >>

\* not s or not s.strip()
IsBlank(s) == \A i \in DOMAIN s : s[i][1] \in {"nl", "sp"}

TextKinds == {"none", "blank", "data"}
TailKinds == {"none", "data"}

IndentTrees(shapes) ==
    UNION {{[MakeTree(sh[1], sh[2], [i \in 1..sh[1] |-> "a"], FALSE)
                EXCEPT !.text = [i \in 1..sh[1] |->
                                    IF tx[i] = "none" THEN <<>>
                                    ELSE IF tx[i] = "blank" THEN Blank ELSE TextOf(i)],
                       !.tail = [i \in 1..sh[1] |->
                                    IF tl[i] = "none" THEN <<>> ELSE TailOf(i)]] :
                tx \in [1..sh[1] -> TextKinds],
                tl \in [1..sh[1] -> TailKinds]}
           : sh \in shapes}

(***************************************************************************)
(* _pretty_print(current, parent=None, index=-1, depth=0); the root is     *)
(* called with parent None, written 0 here.  index counts from 0.          *)
(***************************************************************************)
RECURSIVE pretty_print(_, _, _, _, _)
RECURSIVE pretty_print_children(_, _, _, _)
pretty_print_children(t, current, i, depth) ==
    IF i >= Len(t.children[current]) THEN t
    ELSE pretty_print_children(
             pretty_print(t, t.children[current][i + 1], current, i, depth + 1),
             current, i + 1, depth)

pretty_print(t, current, parent, index, depth) ==
    LET t1 == pretty_print_children(t, current, 0, depth)
        t2 == IF index = 0
              THEN [t1 EXCEPT !.text[parent] = Indentation(depth)]
              ELSE [t1 EXCEPT !.tail[t1.children[parent][index]] = Indentation(depth)]
        t3 == IF index = Len(t1.children[parent]) - 1
              THEN [t2 EXCEPT !.tail[current] = Indentation(depth - 1)]
              ELSE t2
    IN  IF parent = 0 THEN t1 ELSE t3

(***************************************************************************)
(* ET.indent(tree, space, level) of the standard library, called at line   *)
(* 166: _indent_children(elem, level), then the dedent of the last child.  *)
(***************************************************************************)
RECURSIVE indent_children(_, _, _)
RECURSIVE indent_each_child(_, _, _, _)
indent_each_child(t, elem, i, level) ==
    IF i > Len(t.children[elem]) THEN t
    ELSE LET child == t.children[elem][i]
             t1 == IF t.children[child] # <<>>
                   THEN indent_children(t, child, level + 1) ELSE t
             t2 == IF IsBlank(t1.tail[child])
                   THEN [t1 EXCEPT !.tail[child] = Indentation(level + 1)] ELSE t1
         IN  indent_each_child(t2, elem, i + 1, level)

indent_children(t, elem, level) ==
    LET t1 == IF IsBlank(t.text[elem])
              THEN [t EXCEPT !.text[elem] = Indentation(level + 1)] ELSE t
        t2 == indent_each_child(t1, elem, 1, level)
        last == t2.children[elem][Len(t2.children[elem])]
    IN  IF IsBlank(t2.tail[last])
        THEN [t2 EXCEPT !.tail[last] = Indentation(level)] ELSE t2

ET_indent(t) == IF t.children[Root] = <<>> THEN t ELSE indent_children(t, Root, 0)

InitIndent ==
    /\ tree \in IndentTrees(Shapes)
    /\ tree0 = tree
    /\ pc = "idle"
    /\ call = NoCall
    /\ parent_map = <<>>
    /\ tag_names = <<>>
    /\ tag = "*"
    /\ todo = <<>>
    /\ IdleMatch
    /\ IdleMask

\* lines 165-168; has_ET_indent: the library has ET.indent (Python 3.9 on)
indent(has_ET_indent) ==
    /\ pc = "idle"
    /\ call' = [op |-> "indent", names |-> <<>>,
                scope |-> IF has_ET_indent THEN "ET.indent" ELSE "_pretty_print",
                with_tail |-> TRUE]
    /\ tree' = IF has_ET_indent THEN ET_indent(tree) ELSE pretty_print(tree, Root, 0, -1, 0)
    /\ pc' = "done"
    /\ UNCHANGED <<tree0, parent_map, tag_names, tag, todo, matchVars, maskVars>>

NextIndent == \E has_ET_indent \in BOOLEAN : indent(has_ET_indent)

SpecIndent == InitIndent /\ [][NextIndent]_vars

\* C9: after indent(root), on either path, the children, tags and attributes
\* of every node are what they were, the root's tail is what it was, and
\* every node whose text held more than whitespace has that text still.
C9_IndentWhitespaceOnly ==
    Done("indent") =>
        /\ tree.children = tree0.children
        /\ tree.tag = tree0.tag
        /\ tree.attrib = tree0.attrib
        /\ tree.tail[Root] = tree0.tail[Root]
        /\ \A n \in Nodes(tree0) : ~ IsBlank(tree0.text[n]) => tree.text[n] = tree0.text[n]

\* C9 on the library path alone
C9_LibraryPathKeepsText ==
    (Done("indent") /\ call.scope = "ET.indent") =>
        \A n \in Nodes(tree0) : ~ IsBlank(tree0.text[n]) => tree.text[n] = tree0.text[n]

====
